---- MODULE Spec2Model ----
(***************************************************************************)
(* A model of the videoex1801 generator: generate.py:main drives           *)
(* render_frames (src/render.py), render_audio_wav (src/audio.py) and the  *)
(* ffmpeg encode/mux steps (src/ffmpeg_utils.py).  scrape_bundle           *)
(* (src/scrape.py) and the note envelope _env (src/audio.py) are modelled  *)
(* as operations of their own, the theme's room list after src/theme.py.   *)
(*                                                                         *)
(* Abstractions.  A duration in seconds is a Python float; it is modelled  *)
(* as the dyadic rational d / DurDen, so that d * fps and d * sr are exact *)
(* in floating point and int() is the floor of the rational.  A            *)
(* random.Random instance is a small full-period linear congruential       *)
(* generator: a deterministic function of its seed.  numpy's process-wide  *)
(* generator (np.random) is another one whose initial state is taken       *)
(* from operating-system entropy when the process starts.  A raster image  *)
(* is one intensity value modulo PixMod.                                   *)
(***************************************************************************)
EXTENDS Integers, Sequences, FiniteSets, TLC

(* ------------------------------ bounds -------------------------------- *)
MaxSeconds == 5
MaxChapters == 2
MaxRunSeconds == 3
MaxEvents == 2
MaxImages == 1
MaxRoomChapters == 3
MaxThemeRooms == 2
MaxParagraphs == 2
MaxEnvSamples == 130

(* ------------------------- modelling units ---------------------------- *)
DurDen == 512
RngMod == 16
NpMod == 4
PixMod == 8
MaxTint == 2
EnvStepMs == 5

(* ------------------------ program constants --------------------------- *)
SampleRate == 48000
NameWidth == 6
NoisePlates == 6
NoteCount == 6
TechLineCount == 12
Attack == 10
Decay == 200
Release == 200
SustainLevel == 600
PickedTitles == 3
LongParagraph == 80

(* ----------------------------- helpers -------------------------------- *)
Min(a, b) == IF a < b THEN a ELSE b
Max(a, b) == IF a > b THEN a ELSE b

\* int(x) for a non-negative rational num/den
IntOf(num, den) == num \div den

\* random.Random: one draw advances the state; the new state is the draw
Rand(s) == (5 * s + 3) % RngMod

\* rng.random() < pct/100, the draw u standing for u / RngMod
Lt(u, pct) == u * 100 < pct * RngMod

\* rng.randint(a, b) for the draw u
RandInt(u, a, b) == a + (u % (b - a + 1))

RECURSIVE SkipN(_, _)
SkipN(s, k) ==
  IF k = 0 THEN s
  ELSE LET n == Rand(s) IN IF n >= 0 THEN SkipN(n, k - 1) ELSE n

RngStates == 0..(RngMod - 1)
NpStates == 0..(NpMod - 1)
Pixels == 0..(PixMod - 1)

\* SkipN, tabulated (f @@ <<>> is f as an explicit table, computed once)
SkipAt == [s \in RngStates |-> [k \in 0..(RngMod - 1) |-> SkipN(s, k)]] @@ <<>>

\* the generator state after k further draws (the generator has period RngMod)
Skip(s, k) == SkipAt[s][k % RngMod]

\* numpy's process-wide generator
NpRand(s) == (s + 1) % NpMod

RECURSIVE Digits(_)
\* decimal digits of n >= 0, most significant first
Digits(n) == IF n < 10 THEN <<n>> ELSE Append(Digits(n \div 10), n % 10)

RECURSIVE ZeroPad(_, _)
ZeroPad(ds, width) == IF Len(ds) >= width THEN ds ELSE ZeroPad(<<0>> \o ds, width)

\* f"frame_{fi:06d}.png": the digits between "frame_" and ".png"
FrameName(fi) == ZeroPad(Digits(fi), NameWidth)

(* ------------------------------ state --------------------------------- *)
VARIABLES
  cfg,          \* the resolved configuration, theme seed and content bundle
  pc,           \* position of the run in generate.py:main
  run,          \* 1 for the first run of the program, 2 for the second
  first,        \* frames and audio produced by the first run
  np_state,     \* numpy's process-wide generator
  rng,          \* render_frames: rng
  bases,        \* render_frames: bases
  jump_events,  \* render_frames: jump_events
  tsec,         \* render_frames: tsec of the schedule loop
  jump_set,     \* render_frames: jump_set
  timeline,     \* render_frames: timeline
  cursor,       \* render_frames: cursor
  ci,           \* render_frames: position in chapters
  fi,           \* render_frames: fi
  prev_arr,     \* render_frames: prev_arr
  written,      \* names of the frame files, in the order they were written
  frames,       \* contents of the frame files, in the same order
  room_iter,    \* render_frames: how many theme rooms room_iter has yielded
  room_cache,   \* render_frames: room_cache
  shots,        \* what the frame loop did for each frame, in order
  sb_rng,       \* scrape_bundle: rng
  titles,       \* scrape_bundle: titles
  picked,       \* scrape_bundle: picked
  paras,        \* scrape_bundle: paras
  image_paths,  \* scrape_bundle: image_paths
  sb_ti,        \* scrape_bundle: position in picked
  bundle,       \* what scrape_bundle returned, or the exception it raised
  env_dur,      \* _env: dur, in milliseconds
  env_i,        \* _env: i of the loop over t
  env_out,      \* _env: out, in thousandths
  sustain_time, \* _env: sustain_time, in milliseconds
  arng,         \* render_audio_wav: rng
  amix,         \* render_audio_wav: the layers mixed so far
  note_i,       \* render_audio_wav: i of the notes loop
  events,       \* render_audio_wav: events
  asec,         \* render_audio_wav: s of the schedule loop
  sting_i,      \* render_audio_wav: position in events
  wav,          \* the written audio.wav
  td_exists,    \* the temporary working directory exists
  out_file,     \* what is at out_path
  stage,        \* the step of main that is running or ran last
  encode_rc,    \* return code of the encode subprocess
  mux_rc,       \* return code of the mux subprocess
  error,        \* the exception that ended main
  printed_ok,   \* "[ok] wrote" was printed
  exit_status   \* exit status of the process

renderVars == <<rng, bases, jump_events, tsec, jump_set, timeline, cursor, ci, fi,
                prev_arr, written, frames, room_iter, room_cache, shots>>
scrapeVars == <<sb_rng, titles, picked, paras, image_paths, sb_ti, bundle>>
envVars == <<env_dur, env_i, env_out, sustain_time>>
audioVars == <<arng, amix, note_i, events, asec, sting_i, wav>>
mainVars == <<td_exists, out_file, stage, encode_rc, mux_rc, error, printed_ok,
              exit_status>>
vars == <<cfg, pc, run, first, np_state, renderVars, audioVars, mainVars, scrapeVars,
          envVars>>

None == <<>>

(* --------------------------- render.py -------------------------------- *)

\* a slip: the duration truncated before the multiplication
TotalFramesWholeSeconds(c) == IntOf(c.dur, DurDen) * c.fps

\* total_frames = int(cfg["video"]["duration_s"] * fps)
TotalFrames(c) == IntOf(c.dur * c.fps, DurDen)

\* range(int(cfg["video"]["duration_s"]))
WholeSeconds(c) == IntOf(c.dur, DurDen)

\* a slip: the cap tested with > instead of >=
ScheduleFullLate(len, max_events) == len > max_events

\* if len(jump_events) >= max_events: break
ScheduleFull(len, max_events) == len >= max_events

\* a slip: the residual test with <= instead of <
NeedsResidualOrEqual(cur, total) == cur <= total

\* if cursor < total_frames: timeline.append(...)
NeedsResidual(cur, total) == cur < total

\* a slip: the window made of the flash frames only
JumpSetFlashOnly(evs, c) ==
  {evs[k] + d : k \in 1..Len(evs), d \in 0..(c.flash_frames - 1)}

\* jump_set: every trigger widened to flash_frames + hold_frames indices
JumpSetOf(evs, c) ==
  {evs[k] + d : k \in 1..Len(evs), d \in 0..(c.flash_frames + c.hold_frames - 1)}

\* the for a, b, name in timeline scan of one frame
ChapterOf(tl, f) ==
  LET hits == {k \in 1..Len(tl) : tl[k][1] <= f /\ f < tl[k][2]}
  IN IF hits = {} THEN "CONTENT"
     ELSE tl[CHOOSE k \in hits : \A j \in hits : k <= j][3]

\* ch_name.startswith("ROOM:")
IsRoom(name) == name \in {"ROOM: ATTIC", "ROOM: A", "ROOM:A", "ROOM: B"}

\* ch_name.split("ROOM:", 1)[1].strip(): what follows the prefix, blanks removed
RoomKey(name) ==
  CASE name = "ROOM: ATTIC" -> "ATTIC"
    [] name = "ROOM: A" -> "A"
    [] name = "ROOM:A" -> "A"
    [] name = "ROOM: B" -> "B"
    [] OTHER -> name

\* the segment the for a, b, name in timeline scan stops at: <<a, b>>
SegmentOf(tl, f) ==
  LET hits == {k \in 1..Len(tl) : tl[k][1] <= f /\ f < tl[k][2]}
      k0 == CHOOSE k \in hits : \A j \in hits : k <= j
  IN <<tl[k0][1], tl[k0][2]>>

\* a slip: the progress divided by the segment length
ProgressOverLength(f, a, b) == <<f - a, Max(1, b - a)>>

\* t = (fi - ch_a) / max(1, (ch_b - ch_a - 1)), as <<numerator, denominator>>
Progress(f, a, b) == <<f - a, Max(1, b - a - 1)>>

\* the chapter-local progress of one frame: 0.0 unless the chapter is a room
ProgressOf(tl, f) ==
  IF IsRoom(ChapterOf(tl, f))
    THEN Progress(f, SegmentOf(tl, f)[1], SegmentOf(tl, f)[2])
    ELSE <<0, 1>>

\* a slip: every new room takes the first theme room
NextRoomFirst(rooms, taken, key) ==
  IF rooms # <<>> THEN rooms[1] ELSE <<key, "field note / partial lock">>

\* rn = next(room_iter), or the fallback pair on StopIteration
NextRoom(rooms, taken, key) ==
  IF taken < Len(rooms) THEN rooms[taken + 1] ELSE <<key, "field note / partial lock">>

\* the room_cache after the frame's lookup
CacheAfter(cache, rooms, taken, name) ==
  IF IsRoom(name) /\ RoomKey(name) \notin DOMAIN cache
    THEN cache @@ (RoomKey(name) :> NextRoom(rooms, taken, RoomKey(name)))
    ELSE cache

\* room_iter after the frame's lookup: next() consumes one room while any is left
IterAfter(cache, rooms, taken, name) ==
  IF IsRoom(name) /\ RoomKey(name) \notin DOMAIN cache /\ taken < Len(rooms)
    THEN taken + 1
    ELSE taken

\* which branch of the if / elif chain builds the base frame
BaseKind(name) ==
  IF name = "WARNING" THEN "warning card"
  ELSE IF name = "TECHNICAL NOTES" THEN "technical notes card"
  ELSE IF IsRoom(name) THEN "live footage"
  ELSE "noise plate"

\* redact_line: the draws it makes
Redact(s) ==
  LET u1 == Rand(s)
      s1 == IF Lt(u1, 35) THEN Skip(u1, 2) ELSE u1
      u2 == Rand(s1)
  IN IF Lt(u2, 25) THEN Skip(u2, 2) ELSE u2

RECURSIVE Bars(_, _)
\* dossier_overlay: the redaction bars loop
Bars(s, k) ==
  IF k = 0 THEN s
  ELSE LET u == Rand(s) IN Bars(IF Lt(u, 55) THEN Skip(u, 4) ELSE u, k - 1)

\* draw_infographic: ten chart points and three statistics
Infographic(s) == Skip(s, 13)

\* card_screen
CardScreen(s) == [rng |-> Infographic(s), pix |-> Infographic(s) % PixMod]

\* the ROOM branch: rng.choice(bases), ken_burns, the four text lines, content_frame
RoomFrame(s, bs) ==
  LET u0 == Rand(s)
      src == bs[1 + (u0 % Len(bs))]
      kb == Skip(u0, 5)
      ln1 == Redact(Skip(kb, 2))
      ln2 == Redact(Rand(ln1))
      ln3 == Redact(Rand(ln2))
      ln4 == Redact(Skip(ln3, 2))
      dos == Rand(Bars(Skip(ln4, 2), 6))
      fin == Infographic(dos)
  IN [rng |-> fin, pix |-> (src + fin) % PixMod]

\* make_noise_plate: numpy's generator, not rng
NoisePlate(nps) == [np |-> NpRand(nps), pix |-> NpRand(nps) % PixMod]

\* CardScreen, tabulated
CardScreenAt == [s \in RngStates |-> CardScreen(s)] @@ <<>>

\* the draws of RoomFrame, tabulated: they do not depend on the images
RoomDrawsAt == [s \in RngStates |-> RoomFrame(s, <<0>>).rng] @@ <<>>

\* the base frame of one chapter kind: [rng, np, pix]
BaseFrame(name, s, nps, bs) ==
  IF BaseKind(name) = "warning card"
    THEN [rng |-> CardScreenAt[s].rng, np |-> nps, pix |-> CardScreenAt[s].pix]
  ELSE IF BaseKind(name) = "technical notes card"
    THEN [rng |-> CardScreenAt[Rand(s)].rng, np |-> nps, pix |-> CardScreenAt[Rand(s)].pix]
  ELSE IF BaseKind(name) = "live footage"
    THEN [rng |-> RoomDrawsAt[s], np |-> nps,
          pix |-> (bs[1 + (Rand(s) % Len(bs))] + RoomDrawsAt[s]) % PixMod]
  ELSE [rng |-> s, np |-> NoisePlate(nps).np, pix |-> NoisePlate(nps).pix]

\* overlay_vhs_osd then glitch_errors
Overlays(st) ==
  LET o == Skip(st.rng, 2)
      g == Rand(o)
  IN IF Lt(g, 26)
       THEN [st EXCEPT !.rng = Skip(g, 3), !.pix = (st.pix + Skip(g, 3)) % PixMod]
       ELSE [st EXCEPT !.rng = g]

\* maybe_jumpscare_frame
Jumpscare(st) ==
  LET u == Rand(st.rng)
      inv == IF Lt(u, 35) THEN PixMod - 1 - st.pix ELSE st.pix
  IN [st EXCEPT !.rng = u, !.pix = Min(PixMod - 1, 2 * inv)]

\* add_noise: one discarded draw from rng, the noise itself from numpy
AddNoise(st) ==
  LET npv == NpRand(st.np)
  IN [st EXCEPT !.rng = Rand(st.rng), !.np = npv,
                !.pix = Max(0, Min(PixMod - 1, st.pix + npv - 1))]

\* jitter, one row
Jitter(st) ==
  LET u == Rand(st.rng) IN [st EXCEPT !.rng = IF Lt(u, 21) THEN Rand(u) ELSE u]

RECURSIVE Dropouts(_, _)
\* dropouts: the bands loop
Dropouts(st, k) ==
  IF k = 0 THEN st
  ELSE LET u == Rand(st.rng)
           v == Skip(u, 3)
           val == IF Lt(v, 50) THEN 0 ELSE PixMod - 1
       IN Dropouts(IF Lt(u, 30)
                     THEN [st EXCEPT !.rng = v, !.pix = (st.pix + 3 * val) \div 4]
                     ELSE [st EXCEPT !.rng = u], k - 1)

\* flicker
Flicker(st) == [st EXCEPT !.rng = Rand(st.rng)]

\* if prev is None or strength <= 0: return cur
SmearRuns(prev, strength) == ~(prev = None \/ strength <= 0)

\* pframe_smear: skipped when there is no previous buffer or the strength (in
\* tenths) is not positive; int(10 + strength * 60) blocks of three draws each
Smear(st, prev, strength) ==
  IF ~SmearRuns(prev, strength) THEN st
  ELSE [st EXCEPT !.rng = Skip(st.rng, 3 * (10 + 6 * strength)),
                  !.pix = (3 * st.pix + prev[1]) \div 4]

\* apply_vhs up to the smear stage
VhsStages(st) == Flicker(Dropouts(Jitter(AddNoise(st)), 4))

FrameStates == [rng : RngStates, np : NpStates, pix : Pixels]

\* prev_arr: None or a buffer
Buffers == {None} \cup {<<p>> : p \in Pixels}

\* style.pframe_smear in tenths: off, and the default 0.4
SmearStrengths == {0, 4}

\* Overlays, Jumpscare, VhsStages and Smear, tabulated
OverlaysAt == [st \in FrameStates |-> Overlays(st)] @@ <<>>
JumpscareAt == [st \in FrameStates |-> Jumpscare(st)] @@ <<>>
VhsStagesAt == [st \in FrameStates |-> VhsStages(st)] @@ <<>>
SmearAt ==
  [g \in SmearStrengths |->
     [st \in FrameStates |-> [prev \in Buffers |-> Smear(st, prev, g)] @@ <<>>] @@ <<>>] @@ <<>>

\* a slip: the buffer handed back is the one before the smear stage
CarriedBeforeSmear(pre, post) == <<pre.pix>>

\* return Image.fromarray(arr), arr: the buffer handed back is the array the
\* image was made from, after the smear stage
Carried(pre, post) == <<post.pix>>

\* apply_vhs: [rng, np, pix, arr], pix the image and arr the buffer handed back
ApplyVhs(st, prev, strength) ==
  LET pre == VhsStagesAt[st]
      post == SmearAt[strength][pre][prev]
  IN [rng |-> post.rng, np |-> post.np, pix |-> post.pix, arr |-> Carried(pre, post)]

\* one iteration of the frame loop: [rng, np, pix, arr]
FrameOf(f, tl, js, s, nps, bs, prev, strength) ==
  LET b == BaseFrame(ChapterOf(tl, f), s, nps, bs)
      o == OverlaysAt[b]
      j == IF f \in js THEN JumpscareAt[o] ELSE o
  IN ApplyVhs(j, prev, strength)

\* the colour cast of an image: 0 when its three channels are equal at every
\* pixel, else the largest difference between two channels, up to MaxTint.
\* card_screen draws grey on black, make_noise_plate converts one channel to
\* three, the live footage keeps the cast of its source under grey drawings
BaseTint(name, src) == IF BaseKind(name) = "live footage" THEN src ELSE 0

\* a slip: the conversion left out
ToGrayscaleSkipped(tint) == tint

\* to_grayscale: img.convert("L").convert("RGB")
ToGrayscale(tint) == 0

\* overlay_vhs_osd, glitch_errors: every fill has three equal components, the
\* pixels not drawn on keep their colour
OverlayTint(tint) == tint

\* maybe_jumpscare_frame: 255 - x, then contrast 2.1 and brightness 1.35 on
\* each channel alike: a difference between channels is kept or stretched
JumpscareTint(tint) == Min(MaxTint, 2 * tint)

\* the steps of one iteration of the frame loop, in the order they run
FrameSteps(bw, jumped) ==
  <<"base">> \o (IF bw THEN <<"to_grayscale">> ELSE <<>>)
    \o <<"overlay_vhs_osd", "glitch_errors">>
    \o (IF jumped THEN <<"maybe_jumpscare_frame">> ELSE <<>>)
    \o <<"apply_vhs">>

\* the colour cast after one step
TintStep(step, tint, name, src) ==
  CASE step = "base" -> BaseTint(name, src)
    [] step = "to_grayscale" -> ToGrayscale(tint)
    [] step = "overlay_vhs_osd" -> OverlayTint(tint)
    [] step = "glitch_errors" -> OverlayTint(tint)
    [] step = "maybe_jumpscare_frame" -> JumpscareTint(tint)
    [] OTHER -> tint

RECURSIVE TintAfter(_, _, _, _)
\* the colour cast after the first k steps of steps
TintAfter(steps, k, name, src) ==
  IF k = 0 THEN 0
  ELSE TintStep(steps[k], TintAfter(steps, k - 1, name, src), name, src)

\* the colour cast of the frame handed to apply_vhs
HandedTint(name, src, bw, jumped) ==
  TintAfter(FrameSteps(bw, jumped), Len(FrameSteps(bw, jumped)) - 1, name, src)

\* the size of the base frame: card_screen and make_noise_plate create it w by h,
\* content_frame resizes the zoomed source to w by h; three channels each
BaseShape(name, c) == <<c.w, c.h, 3>>

RECURSIVE Plates(_, _)
\* bases = [make_noise_plate(w, h) for _ in range(6)]: [np, seq]
Plates(nps, k) ==
  IF k = 0 THEN [np |-> nps, seq |-> <<>>]
  ELSE LET p == NoisePlate(nps)
           r == Plates(p.np, k - 1)
       IN [np |-> r.np, seq |-> <<p.pix>> \o r.seq]

\* Plates, tabulated
PlatesAt == [nps \in NpStates |-> Plates(nps, NoisePlates)] @@ <<>>

\* render_frames up to the schedule loop
RF_Enter ==
  /\ pc = "rf_enter"
  /\ IF cfg.images > 0
       THEN /\ bases' = [k \in 1..cfg.images |-> k % PixMod]
            /\ np_state' = np_state
       ELSE /\ bases' = PlatesAt[np_state].seq
            /\ np_state' = PlatesAt[np_state].np
  /\ rng' = IF cfg.tech THEN cfg.rng_int ELSE Rand(cfg.rng_int)
  /\ jump_events' = <<>>
  /\ tsec' = 0
  /\ pc' = "rf_jump"
  /\ UNCHANGED <<cfg, scrapeVars, envVars, run, first, jump_set, timeline, cursor, ci, fi, prev_arr,
                 written, frames, room_iter, room_cache, shots,
                 audioVars, mainVars>>

\* one iteration of the schedule loop
RF_JumpStep ==
  /\ pc = "rf_jump"
  /\ tsec < WholeSeconds(cfg)
  /\ ~ScheduleFull(Len(jump_events), cfg.max_events)
  /\ LET u1 == Rand(rng)
         u2 == Rand(u1)
     IN IF u1 < cfg.prob
          THEN /\ jump_events' = Append(jump_events, tsec * cfg.fps + RandInt(u2, 0, cfg.fps - 1))
               /\ rng' = u2
          ELSE /\ jump_events' = jump_events
               /\ rng' = u1
  /\ tsec' = tsec + 1
  /\ UNCHANGED <<cfg, scrapeVars, envVars, pc, run, first, np_state, bases, jump_set, timeline, cursor, ci,
                 fi, prev_arr, written, frames, room_iter, room_cache, shots,
                 audioVars, mainVars>>

\* the schedule loop ends (exhausted or break); jump_set is built
RF_JumpEnd ==
  /\ pc = "rf_jump"
  /\ \/ tsec >= WholeSeconds(cfg)
     \/ ScheduleFull(Len(jump_events), cfg.max_events)
  /\ jump_set' = JumpSetOf(jump_events, cfg)
  /\ timeline' = <<>>
  /\ cursor' = 0
  /\ ci' = 1
  /\ pc' = "rf_timeline"
  /\ UNCHANGED <<cfg, scrapeVars, envVars, run, first, np_state, rng, bases, jump_events, tsec, fi, prev_arr,
                 written, frames, room_iter, room_cache, shots,
                 audioVars, mainVars>>

\* one iteration of for ch in chapters
RF_TimelineStep ==
  /\ pc = "rf_timeline"
  /\ ci <= Len(cfg.chapters)
  /\ LET ch == cfg.chapters[ci]
         n == IntOf(ch.seconds * cfg.fps, DurDen)
     IN /\ timeline' = Append(timeline, <<cursor, cursor + n, ch.name>>)
        /\ cursor' = cursor + n
  /\ ci' = ci + 1
  /\ UNCHANGED <<cfg, scrapeVars, envVars, pc, run, first, np_state, rng, bases, jump_events, tsec, jump_set,
                 fi, prev_arr, written, frames, room_iter, room_cache, shots,
                 audioVars, mainVars>>

\* after the chapters: the residual segment, then the frame loop starts
RF_Residual ==
  /\ pc = "rf_timeline"
  /\ ci > Len(cfg.chapters)
  /\ timeline' = IF NeedsResidual(cursor, TotalFrames(cfg))
                   THEN Append(timeline, <<cursor, TotalFrames(cfg), "ROOM: ATTIC">>)
                   ELSE timeline
  /\ fi' = 0
  /\ prev_arr' = None
  /\ written' = <<>>
  /\ frames' = <<>>
  /\ room_iter' = 0
  /\ room_cache' = <<>>
  /\ shots' = <<>>
  /\ pc' = "rf_frames"
  /\ UNCHANGED <<cfg, scrapeVars, envVars, run, first, np_state, rng, bases, jump_events, tsec, jump_set,
                 cursor, ci, audioVars, mainVars>>

\* one iteration of for fi in range(total_frames)
RF_Frame ==
  /\ pc = "rf_frames"
  /\ fi < TotalFrames(cfg)
  /\ \E r \in {FrameOf(fi, timeline, jump_set, rng, np_state, bases, prev_arr,
                         cfg.pframe_smear)} :
        /\ rng' = r.rng
        /\ np_state' = r.np
        /\ prev_arr' = r.arr
        /\ frames' = Append(frames, r.pix)
  /\ LET name == ChapterOf(timeline, fi)
         cache == CacheAfter(room_cache, cfg.rooms, room_iter, name)
     IN /\ room_cache' = cache
        /\ room_iter' = IterAfter(room_cache, cfg.rooms, room_iter, name)
        /\ shots' = Append(shots,
             [name |-> name,
              kind |-> BaseKind(name),
              room |-> IF IsRoom(name) THEN cache[RoomKey(name)] ELSE None,
              t |-> ProgressOf(timeline, fi),
              tint |-> HandedTint(name, IF cfg.images > 0 THEN cfg.img_tint ELSE 0,
                                  cfg.black_white, fi \in jump_set),
              steps |-> FrameSteps(cfg.black_white, fi \in jump_set),
              shape |-> BaseShape(name, cfg),
              jumped |-> fi \in jump_set,
              prev_in |-> prev_arr,
              smeared |-> SmearRuns(prev_arr, cfg.pframe_smear)])
  /\ written' = Append(written, FrameName(fi))
  /\ fi' = fi + 1
  /\ UNCHANGED <<cfg, scrapeVars, envVars, pc, run, first, bases, jump_events, tsec, jump_set, timeline,
                 cursor, ci, audioVars, mainVars>>

\* the frame loop is exhausted and render_frames returns
RF_Return ==
  /\ pc = "rf_frames"
  /\ fi >= TotalFrames(cfg)
  /\ pc' = "rf_done"
  /\ UNCHANGED <<cfg, scrapeVars, envVars, run, first, np_state, renderVars, audioVars, mainVars>>

NextRender ==
  \/ RF_Enter
  \/ RF_JumpStep
  \/ RF_JumpEnd
  \/ RF_TimelineStep
  \/ RF_Residual
  \/ RF_Frame
  \/ RF_Return

(* ---------------------------- audio.py -------------------------------- *)

\* round(x) of Python for a non-negative rational num/den: ties go to the even
PyRound(num, den) ==
  LET q == num \div den
      r == num % den
  IN IF 2 * r < den THEN q
     ELSE IF 2 * r > den THEN q + 1
     ELSE IF q % 2 = 0 THEN q ELSE q + 1

\* a variant: the sample count rounded instead of truncated
SampleCountRounded(c) == PyRound(SampleRate * c.dur, DurDen)

\* n = int(sr * dur)
SampleCount(c) == IntOf(SampleRate * c.dur, DurDen)

\* step = int(sr * 0.9)
NoteStep == IntOf(SampleRate * 9, 10)

\* _noise(n): one call on numpy's generator
Noise(nps) == NpRand(nps)

\* a slip: the sustain time not floored at zero
SustainTimeUnfloored(dur) == dur - (Attack + Decay + Release)

\* sustain_time = max(0.0, dur - (attack + decay + release)), in milliseconds
SustainTime(dur) == Max(0, dur - (Attack + Decay + Release))

\* the sample times t: a grid of EnvStepMs milliseconds
SampleTime(i) == i * EnvStepMs

\* one pass of the if / elif chain of _env for the sample time ti, in thousandths
EnvValue(ti, dur, st) ==
  IF ti < Attack
    THEN (ti * 1000) \div Attack
  ELSE IF ti < Attack + Decay
    THEN 1000 + ((SustainLevel - 1000) * (ti - Attack)) \div Decay
  ELSE IF ti < Attack + Decay + st
    THEN SustainLevel
  ELSE IF ti < dur
    THEN (SustainLevel * (Release - (ti - (Attack + Decay + st)))) \div Release
  ELSE 0

\* note durations in milliseconds: none, shorter than the attack, shorter than
\* attack + decay, shorter than attack + decay + release, and longer
EnvDurations == {0, 5, 100, 205, 210, 215, 300, 405, 410, 415, 600}

\* _env is called with dur; up to its loop: out = np.zeros_like(t), the segment
\* lengths
Env_Enter ==
  /\ pc = "env_enter"
  /\ \E dur \in EnvDurations :
       /\ env_dur' = dur
       /\ sustain_time' = SustainTime(dur)
  /\ env_out' = <<>>
  /\ env_i' = 0
  /\ pc' = "env_loop"
  /\ UNCHANGED <<cfg, scrapeVars, run, first, np_state, renderVars, audioVars, mainVars>>

\* one iteration of for i, ti in enumerate(t)
Env_Sample ==
  /\ pc = "env_loop"
  /\ env_i < MaxEnvSamples
  /\ env_out' = Append(env_out, EnvValue(SampleTime(env_i), env_dur, sustain_time))
  /\ env_i' = env_i + 1
  /\ UNCHANGED <<cfg, scrapeVars, pc, run, first, np_state, renderVars, audioVars, mainVars,
                 env_dur, sustain_time>>

\* return out
Env_Return ==
  /\ pc = "env_loop"
  /\ env_i >= MaxEnvSamples
  /\ pc' = "env_done"
  /\ UNCHANGED <<cfg, scrapeVars, envVars, run, first, np_state, renderVars, audioVars,
                 mainVars>>

NextEnv ==
  \/ Env_Enter
  \/ Env_Sample
  \/ Env_Return

\* render_audio_wav up to the notes loop: hiss, rumble, lfo, drone
AU_Enter ==
  /\ pc = "au_enter"
  /\ np_state' = Noise(np_state)
  /\ arng' = Skip(cfg.rng_int, 4)
  /\ amix' = (Noise(np_state) + Skip(cfg.rng_int, 4)) % PixMod
  /\ note_i' = 0
  /\ pc' = "au_notes"
  /\ UNCHANGED <<cfg, scrapeVars, envVars, run, first, renderVars, events, asec, sting_i, wav, mainVars>>

\* one iteration of for i, f in enumerate(notes)
AU_Note ==
  /\ pc = "au_notes"
  /\ note_i < NoteCount
  /\ note_i * NoteStep < SampleCount(cfg)
  /\ arng' = Rand(arng)
  /\ amix' = (amix + Rand(arng)) % PixMod
  /\ note_i' = note_i + 1
  /\ UNCHANGED <<cfg, scrapeVars, envVars, pc, run, first, np_state, renderVars, events, asec, sting_i, wav,
                 mainVars>>

\* the notes loop ends (exhausted or break)
AU_NotesEnd ==
  /\ pc = "au_notes"
  /\ \/ note_i >= NoteCount
     \/ note_i * NoteStep >= SampleCount(cfg)
  /\ events' = <<>>
  /\ asec' = 0
  /\ pc' = "au_jump"
  /\ UNCHANGED <<cfg, scrapeVars, envVars, run, first, np_state, renderVars, arng, amix, note_i, sting_i, wav,
                 mainVars>>

\* one iteration of the stinger schedule loop; an event s + rng.random() is kept
\* as the numerator of a fraction over RngMod
AU_JumpStep ==
  /\ pc = "au_jump"
  /\ asec < WholeSeconds(cfg)
  /\ ~ScheduleFull(Len(events), cfg.max_events)
  /\ LET u1 == Rand(arng)
         u2 == Rand(u1)
     IN IF u1 < cfg.prob
          THEN /\ events' = Append(events, asec * RngMod + u2)
               /\ arng' = u2
          ELSE /\ events' = events
               /\ arng' = u1
  /\ asec' = asec + 1
  /\ UNCHANGED <<cfg, scrapeVars, envVars, pc, run, first, np_state, renderVars, amix, note_i, sting_i, wav,
                 mainVars>>

\* the stinger schedule loop ends (exhausted or break)
AU_JumpEnd ==
  /\ pc = "au_jump"
  /\ \/ asec >= WholeSeconds(cfg)
     \/ ScheduleFull(Len(events), cfg.max_events)
  /\ sting_i' = 1
  /\ pc' = "au_sting"
  /\ UNCHANGED <<cfg, scrapeVars, envVars, run, first, np_state, renderVars, arng, amix, note_i, events, asec,
                 wav, mainVars>>

\* one iteration of for et in events
AU_Sting ==
  /\ pc = "au_sting"
  /\ sting_i <= Len(events)
  /\ LET n == SampleCount(cfg)
         start == IntOf(events[sting_i] * SampleRate, RngMod)
         u == Rand(arng)
         length == IntOf(SampleRate * (18 * RngMod + 22 * u), 100 * RngMod)
         end == Min(n, start + length)
     IN IF end <= start
          THEN /\ arng' = u
               /\ UNCHANGED <<np_state, amix>>
          ELSE /\ arng' = Skip(u, 2)
               /\ np_state' = Noise(np_state)
               /\ amix' = (amix + Noise(np_state) + Skip(u, 2)) % PixMod
  /\ sting_i' = sting_i + 1
  /\ UNCHANGED <<cfg, scrapeVars, envVars, pc, run, first, renderVars, note_i, events, asec, wav, mainVars>>

\* _write_wav: the header fields and the frames written
WriteWav(sr, n, mix) ==
  <<[nchannels |-> 1, sampwidth |-> 2, framerate |-> sr, nframes |-> n, mix |-> mix]>>

\* the final mix and _write_wav
AU_Write ==
  /\ pc = "au_sting"
  /\ sting_i > Len(events)
  /\ wav' = WriteWav(SampleRate, SampleCount(cfg), amix)
  /\ pc' = "au_done"
  /\ UNCHANGED <<cfg, scrapeVars, envVars, run, first, np_state, renderVars, arng, amix, note_i, events, asec,
                 sting_i, mainVars>>

NextAudio ==
  \/ AU_Enter
  \/ AU_Note
  \/ AU_NotesEnd
  \/ AU_JumpStep
  \/ AU_JumpEnd
  \/ AU_Sting
  \/ AU_Write

(* ---------------------------- scrape.py ------------------------------- *)

\* s[:k] of Python for k >= 0
Take(seq, k) == SubSeq(seq, 1, Min(Len(seq), k))

\* rng.shuffle(seq): a permutation fixed by the generator state (a rotation here)
Shuffle(seq, s) ==
  IF seq = <<>> THEN seq
  ELSE [k \in 1..Len(seq) |-> seq[1 + ((k - 1 + s) % Len(seq))]]

\* what a remote call does: it raises, or it returns val
Raises == [ok |-> FALSE, val |-> <<>>]
Returns(v) == [ok |-> TRUE, val |-> v]

\* wiki_search: it raises, or returns no title, one title or four
SearchOutcomes == {Raises, Returns(<<>>), Returns(<<1>>), Returns(<<1, 2, 3, 4>>)}

\* wiki_extract: it raises, or returns a text, given by the lengths of its paragraphs
ExtractOutcomes ==
  {Raises, Returns(<<>>), Returns(<<40>>), Returns(<<100>>), Returns(<<300, 40, 90>>)}

\* wiki_images: it raises, or returns some thumbnail URLs; download_image
\* returns True or False for each and never raises
ImageOutcomes ==
  {Raises} \cup UNION {{Returns(d) : d \in [1..u -> BOOLEAN]} : u \in 0..2}

\* fallback_titles and fallback_paras (three each; the paragraphs by their lengths)
FallbackTitles == <<101, 102, 103>>
FallbackParas == <<264, 193, 140>>

\* the try block around the two searches
TitlesOf(r1, r2) ==
  IF ~r1.ok THEN FallbackTitles
  ELSE IF r1.val # <<>> THEN r1.val
  ELSE IF ~r2.ok THEN FallbackTitles
  ELSE IF r2.val # <<>> THEN r2.val
  ELSE FallbackTitles

\* pick_paragraphs: the paragraphs longer than 80 characters, at most max_paragraphs
PickParagraphs(extract, max_paragraphs) ==
  Take(SelectSeq(extract, LAMBDA len : len > LongParagraph), max_paragraphs)

RECURSIVE Downloads(_, _, _)
\* for u in urls: stop at max_images, keep img_NN for every download that worked
Downloads(paths, results, max_images) ==
  IF results = <<>> \/ Len(paths) >= max_images THEN paths
  ELSE Downloads(IF Head(results) THEN Append(paths, Len(paths)) ELSE paths,
                 Tail(results), max_images)

\* the twelve technical lines: three draws each
TechLines(s) == [i \in 1..TechLineCount |-> Skip(s, 3 * i)]

\* scrape_bundle up to the loop over the picked titles
SB_Search ==
  /\ pc = "sb_search"
  /\ \E r1 \in SearchOutcomes, r2 \in SearchOutcomes :
       /\ titles' = Shuffle(TitlesOf(r1, r2), cfg.rng_int)
       /\ picked' = Take(Shuffle(TitlesOf(r1, r2), cfg.rng_int), PickedTitles)
       /\ sb_rng' = Skip(cfg.rng_int, Len(TitlesOf(r1, r2)) - 1)
  /\ paras' = <<>>
  /\ image_paths' = <<>>
  /\ sb_ti' = 1
  /\ pc' = "sb_titles"
  /\ UNCHANGED <<cfg, envVars, run, first, np_state, renderVars, audioVars, mainVars,
                 bundle>>

\* one iteration of for t in picked
SB_Title ==
  /\ pc = "sb_titles"
  /\ sb_ti <= Len(picked)
  /\ \E ex \in ExtractOutcomes :
       paras' = IF ex.ok
                  THEN paras \o PickParagraphs(ex.val, cfg.scrape.max_wiki_paragraphs)
                  ELSE paras
  /\ IF cfg.scrape.allow_wikimedia
       THEN \E im \in ImageOutcomes :
              IF im.ok
                THEN /\ image_paths' = Downloads(image_paths, im.val, cfg.scrape.max_images)
                     /\ sb_rng' = Skip(sb_rng, Max(0, Len(im.val) - 1))
                ELSE UNCHANGED <<image_paths, sb_rng>>
       ELSE UNCHANGED <<image_paths, sb_rng>>
  /\ sb_ti' = sb_ti + 1
  /\ UNCHANGED <<cfg, envVars, pc, run, first, np_state, renderVars, audioVars, mainVars,
                 titles, picked, bundle>>

\* after the loop: the fallback paragraphs, the technical lines, the return
SB_Return ==
  /\ pc = "sb_titles"
  /\ sb_ti > Len(picked)
  /\ bundle' = <<[titles |-> picked,
                  paragraphs |-> Take(IF paras = <<>> THEN FallbackParas ELSE paras,
                                      cfg.scrape.max_wiki_paragraphs),
                  images |-> image_paths,
                  tech_lines |-> TechLines(sb_rng)]>>
  /\ pc' = "sb_done"
  /\ UNCHANGED <<cfg, envVars, run, first, np_state, renderVars, audioVars, mainVars,
                 sb_rng, titles, picked, paras, image_paths, sb_ti>>

NextScrape ==
  \/ SB_Search
  \/ SB_Title
  \/ SB_Return

(* --------------------- ffmpeg_utils.py, generate.py ------------------- *)

\* what the subprocess can print
ToolOutputs == {"log_a", "log_b"}

\* a slip: the return code is not looked at
RunNeverRaises(rc) == FALSE

\* _run: if p.returncode != 0: raise
RunRaises(rc) == rc # 0

\* _run: RuntimeError(f"ffmpeg failed:\n{p.stdout}")
RunError(stdout) == <<"RuntimeError", stdout>>

\* a slip: the directory removed at the end of the block only, not on an exception
TempDirLeftOnError(raised) == raised

\* with tempfile.TemporaryDirectory(): whether the directory is left behind when
\* the block is left, normally (raised = FALSE) or by an exception
TempDirLeft(raised) == FALSE

\* what ffmpeg -y leaves at out_path: on success the finished file (which the
\* final check of main still allows to be missing); on failure nothing new when
\* it stopped before opening its output, else a truncated file
MuxLeaves(rc, old) == IF rc = 0 THEN {"complete", "absent"} ELSE {old, "partial"}

InsideWith == {"scrape", "rf_enter", "rf_jump", "rf_timeline", "rf_frames", "rf_done",
               "au_enter", "au_notes", "au_jump", "au_sting"}

\* main up to and including the creation of the temporary directory
M_Start ==
  /\ pc = "start"
  /\ td_exists' = TRUE
  /\ stage' = "scrape"
  /\ pc' = "scrape"
  /\ UNCHANGED <<cfg, scrapeVars, envVars, run, first, np_state, renderVars, audioVars, out_file, encode_rc,
                 mux_rc, error, printed_ok, exit_status>>

\* bundle = scrape_bundle(cfg, theme, td); render_frames is called
M_Scrape ==
  /\ pc = "scrape"
  /\ stage' = "render"
  /\ pc' = "rf_enter"
  /\ UNCHANGED <<cfg, scrapeVars, envVars, run, first, np_state, renderVars, audioVars, td_exists, out_file,
                 encode_rc, mux_rc, error, printed_ok, exit_status>>

\* render_frames has returned; render_audio_wav is called
M_CallAudio ==
  /\ pc = "rf_done"
  /\ stage' = "audio"
  /\ pc' = "au_enter"
  /\ UNCHANGED <<cfg, scrapeVars, envVars, run, first, np_state, renderVars, audioVars, td_exists, out_file,
                 encode_rc, mux_rc, error, printed_ok, exit_status>>

\* an exception leaves the with block from bundle acquisition, rendering or audio
M_Raise ==
  /\ pc \in InsideWith
  /\ error' = <<"Exception", stage>>
  /\ td_exists' = TempDirLeft(TRUE)
  /\ exit_status' = 1
  /\ pc' = "raised"
  /\ UNCHANGED <<cfg, scrapeVars, envVars, run, first, np_state, renderVars, audioVars, out_file, stage,
                 encode_rc, mux_rc, printed_ok>>

\* encode_video_from_frames
M_Encode ==
  /\ pc = "au_done"
  /\ stage' = "encode"
  /\ \E rc \in {0, 1}, out \in ToolOutputs :
       /\ encode_rc' = <<rc, out>>
       /\ IF RunRaises(rc)
            THEN /\ error' = RunError(out)
                 /\ td_exists' = TempDirLeft(TRUE)
                 /\ exit_status' = 1
                 /\ pc' = "raised"
            ELSE /\ pc' = "mux"
                 /\ UNCHANGED <<error, td_exists, exit_status>>
  /\ UNCHANGED <<cfg, scrapeVars, envVars, run, first, np_state, renderVars, audioVars, out_file, mux_rc,
                 printed_ok>>

\* mux_audio_video, then the with block is left
M_Mux ==
  /\ pc = "mux"
  /\ stage' = "mux"
  /\ \E rc \in {0, 1}, out \in ToolOutputs :
       /\ mux_rc' = <<rc, out>>
       /\ out_file' \in MuxLeaves(rc, out_file)
       /\ IF RunRaises(rc)
            THEN /\ error' = RunError(out)
                 /\ td_exists' = TempDirLeft(TRUE)
                 /\ exit_status' = 1
                 /\ pc' = "raised"
            ELSE /\ td_exists' = TempDirLeft(FALSE)
                 /\ pc' = "check"
                 /\ UNCHANGED <<error, exit_status>>
  /\ UNCHANGED <<cfg, scrapeVars, envVars, run, first, np_state, renderVars, audioVars, encode_rc, printed_ok>>

\* if not Path(out_path).exists(): raise SystemExit(...); print("[ok] wrote ...")
M_Check ==
  /\ pc = "check"
  /\ stage' = "check"
  /\ IF out_file = "absent"
       THEN /\ error' = <<"SystemExit", "Failed to create output video.">>
            /\ exit_status' = 1
            /\ pc' = "raised"
            /\ UNCHANGED printed_ok
       ELSE /\ printed_ok' = TRUE
            /\ exit_status' = 0
            /\ pc' = "ok"
            /\ UNCHANGED error
  /\ UNCHANGED <<cfg, scrapeVars, envVars, run, first, np_state, renderVars, audioVars, td_exists, out_file,
                 encode_rc, mux_rc>>

\* the program is started a second time with the same configuration, seed and
\* bundle; numpy's generator starts from fresh entropy
M_Rerun ==
  /\ pc = "ok"
  /\ run = 1
  /\ run' = 2
  /\ first' = <<frames, wav>>
  /\ np_state' \in 0..(NpMod - 1)
  /\ pc' = "start"
  /\ stage' = "start"
  /\ td_exists' = FALSE
  /\ encode_rc' = None
  /\ mux_rc' = None
  /\ error' = None
  /\ printed_ok' = FALSE
  /\ exit_status' = -1
  /\ rng' = 0 /\ bases' = <<>> /\ jump_events' = <<>> /\ tsec' = 0 /\ jump_set' = {}
  /\ timeline' = <<>> /\ cursor' = 0 /\ ci' = 1 /\ fi' = 0 /\ prev_arr' = None
  /\ written' = <<>> /\ frames' = <<>>
  /\ room_iter' = 0 /\ room_cache' = <<>> /\ shots' = <<>>
  /\ arng' = 0 /\ amix' = 0 /\ note_i' = 0 /\ events' = <<>> /\ asec' = 0
  /\ sting_i' = 1 /\ wav' = None
  /\ UNCHANGED <<cfg, scrapeVars, envVars, out_file>>

NextMain ==
  \/ M_Start
  \/ M_Scrape
  \/ M_CallAudio
  \/ M_Raise
  \/ M_Encode
  \/ M_Mux
  \/ M_Check
  \/ M_Rerun

(* ----------------------------- inputs --------------------------------- *)

ChapterNames == {"WARNING", "ROOM: A", "INTRO"}

\* chapter lengths: 0 s, 0.5 s, 3 s
ChapterSeconds == {0, DurDen \div 2, 3 * DurDen}

Chapter == [name : ChapterNames, seconds : ChapterSeconds]

ChapterLists(k) == UNION {[1..m -> Chapter] : m \in 0..k}

\* theme.py: ROOMS
ROOMS ==
  <<<<"FOYER", "entry camera / door seam">>,
    <<"LIVING ROOM", "wide angle / low light">>,
    <<"KITCHEN", "fluorescent hum / tile reflections">>,
    <<"BEDROOM", "soft shadows / cloth movement">>,
    <<"BASEMENT", "low ceiling / damp walls">>,
    <<"ATTIC", "wood dust / insulation fibers">>>>

\* rooms = ROOMS.copy(); rng.shuffle(rooms): a permutation fixed by the seed (a
\* rotation here); the first n of it, n = 6 for the theme make_seed_and_theme
\* builds, fewer for a theme handed to render_frames with fewer rooms
ThemeRooms(seed, n) == [k \in 1..n |-> ROOMS[1 + ((k - 1 + seed) % Len(ROOMS))]]

Config(fps, dur, chs, prob, maxev, seed, imgs) ==
  [fps |-> fps, dur |-> dur, chapters |-> chs, prob |-> prob, max_events |-> maxev,
   flash_frames |-> 1, hold_frames |-> 1, rng_int |-> seed, images |-> imgs,
   tech |-> TRUE, black_white |-> FALSE, pframe_smear |-> 4, img_tint |-> 1,
   w |-> 4, h |-> 3, rooms |-> ThemeRooms(seed, Len(ROOMS)),
   scrape |-> [max_wiki_paragraphs |-> 2, max_images |-> 1, allow_wikimedia |-> TRUE]]

\* whole and half seconds up to MaxSeconds, slow frame rates, any chapter list;
\* and the frame rate 10 with at most one chapter
RenderConfigs ==
  {Config(fps, s * DurDen + f, chs, RngMod \div 2, 1, 1, 0) :
     fps \in {1, 2}, s \in 0..MaxSeconds, f \in {0, DurDen \div 2},
     chs \in ChapterLists(MaxChapters)}
  \cup
  {Config(10, s * DurDen, chs, RngMod \div 2, 1, 1, 0) :
     s \in 0..2, chs \in ChapterLists(1)}

InitState(c, p, nps, out) ==
  /\ cfg = c
  /\ pc = p
  /\ run = 1
  /\ first = None
  /\ np_state = nps
  /\ rng = 0 /\ bases = <<>> /\ jump_events = <<>> /\ tsec = 0 /\ jump_set = {}
  /\ timeline = <<>> /\ cursor = 0 /\ ci = 1 /\ fi = 0 /\ prev_arr = None
  /\ written = <<>> /\ frames = <<>>
  /\ room_iter = 0 /\ room_cache = <<>> /\ shots = <<>>
  /\ sb_rng = 0 /\ titles = <<>> /\ picked = <<>> /\ paras = <<>> /\ image_paths = <<>>
  /\ sb_ti = 1 /\ bundle = None
  /\ env_dur = 0 /\ env_i = 0 /\ env_out = <<>> /\ sustain_time = 0
  /\ arng = 0 /\ amix = 0 /\ note_i = 0 /\ events = <<>> /\ asec = 0
  /\ sting_i = 1 /\ wav = None
  /\ td_exists = FALSE
  /\ out_file = out
  /\ stage = "start"
  /\ encode_rc = None
  /\ mux_rc = None
  /\ error = None
  /\ printed_ok = FALSE
  /\ exit_status = -1

\* render_frames alone, over many chapter lists and durations
InitRender == \E c \in RenderConfigs : InitState(c, "rf_enter", 0, "absent")

SpecRender == InitRender /\ [][NextRender]_vars

\* render_frames then render_audio_wav, over every seed, many probabilities and
\* caps, and durations that are not whole seconds
AVConfigs ==
  {Config(1, s * DurDen + f, <<[name |-> "WARNING", seconds |-> DurDen]>>, prob, maxev,
          seed, 0) :
     s \in 0..MaxRunSeconds, f \in {0, 1, 2, DurDen - 1},
     prob \in {0, RngMod \div 4, RngMod \div 2, RngMod},
     maxev \in 0..MaxEvents, seed \in RngStates}

InitAV == \E c \in AVConfigs : InitState(c, "rf_enter", 0, "absent")

NextAV == NextRender \/ M_CallAudio \/ NextAudio

SpecAV == InitAV /\ [][NextAV]_vars

\* the whole of main, run twice
MainConfigs ==
  {Config(2, s * DurDen, chs, RngMod \div 2, 1, 1, imgs) :
     s \in 0..MaxRunSeconds,
     chs \in {<<>>, <<[name |-> "WARNING", seconds |-> DurDen \div 2],
                     [name |-> "INTRO", seconds |-> DurDen \div 2]>>},
     imgs \in {0, MaxImages}}

Init ==
  \E c \in MainConfigs, nps \in {0, 1}, out \in {"absent", "stale"} :
    InitState(c, "start", nps, out)

Next == NextMain \/ NextRender \/ NextAudio

Spec == Init /\ [][Next]_vars

\* the frame loop seen frame by frame.  Room chapters of one frame and of three
\* frames at fps 2, after an optional leader chapter, with themes of few rooms
RoomChapterNames == {"ROOM: A", "ROOM:A", "ROOM: B"}

RoomChapter == [name : RoomChapterNames, seconds : {DurDen \div 2, 3 * (DurDen \div 2)}]

RoomLists(k) == UNION {[1..m -> RoomChapter] : m \in 0..k}

LeaderNames == {"WARNING", "TECHNICAL NOTES", "CONTENT", "INTRO"}

StructureConfigs ==
  {[Config(2, 3 * DurDen, chs, 0, 0, seed, 0) EXCEPT !.rooms = ThemeRooms(seed, n)] :
     chs \in RoomLists(MaxRoomChapters), n \in 0..MaxThemeRooms, seed \in {1, 4}}
  \cup
  {[Config(2, 3 * DurDen, <<[name |-> ld, seconds |-> DurDen \div 2]>> \o chs, 0, 0, 1, 0)
      EXCEPT !.rooms = ThemeRooms(1, n)] :
     ld \in LeaderNames, chs \in RoomLists(1), n \in 0..MaxThemeRooms}

\* a warning card, a technical notes card, a noise plate and a room, one frame
\* each at fps 2 but the room, which has two
EffectChapters ==
  <<[name |-> "WARNING", seconds |-> DurDen \div 2],
    [name |-> "TECHNICAL NOTES", seconds |-> DurDen \div 2],
    [name |-> "INTRO", seconds |-> DurDen \div 2],
    [name |-> "ROOM: A", seconds |-> DurDen]>>

\* styles and jump-scare settings: colour or black and white, coloured images
\* or noise plates, smear on or off, windows of 0 to 3 frames
EffectConfigs ==
  {[Config(fps, sec * DurDen, chs, prob, maxev, seed, imgs)
      EXCEPT !.black_white = bw, !.pframe_smear = g, !.flash_frames = fl,
             !.hold_frames = ho] :
     fps \in {2, 3}, sec \in 1..MaxRunSeconds, chs \in {<<>>, EffectChapters},
     prob \in {RngMod \div 2, RngMod}, maxev \in 0..MaxEvents, seed \in {1, 6, 11},
     imgs \in {0, MaxImages}, bw \in BOOLEAN, g \in SmearStrengths,
     fl \in 0..2, ho \in 0..1}

FrameConfigs == StructureConfigs \cup EffectConfigs

InitFrames == \E c \in FrameConfigs : InitState(c, "rf_enter", 0, "absent")

SpecFrames == InitFrames /\ [][NextRender]_vars

\* scrape_bundle alone: every outcome of the remote calls, small limits
ScrapeConfigs ==
  {[Config(1, DurDen, <<>>, 0, 0, seed, 0)
      EXCEPT !.scrape = [max_wiki_paragraphs |-> mp, max_images |-> mi,
                         allow_wikimedia |-> aw]] :
     mp \in 0..MaxParagraphs, mi \in 0..MaxImages, aw \in BOOLEAN, seed \in {1, 2}}

InitScrape == \E c \in ScrapeConfigs : InitState(c, "sb_search", 0, "absent")

SpecScrape == InitScrape /\ [][NextScrape]_vars

\* _env alone, called with each of EnvDurations on the grid of sample times
InitEnv == InitState(Config(1, DurDen, <<>>, 0, 0, 1, 0), "env_enter", 0, "absent")

SpecEnv == InitEnv /\ [][NextEnv]_vars

(* ------------------------------ claims -------------------------------- *)

TimelineBuilt == pc \in {"rf_frames", "rf_done"}

RECURSIVE DecValue(_)
\* the number a digit sequence writes
DecValue(ds) == IF ds = <<>> THEN 0 ELSE 10 * DecValue(SubSeq(ds, 1, Len(ds) - 1)) + ds[Len(ds)]

RECURSIVE ChapterFrames(_, _)
\* the frames the first k configured chapters ask for
ChapterFrames(c, k) ==
  IF k = 0 THEN 0
  ELSE ChapterFrames(c, k - 1) + ((c.chapters[k].seconds * c.fps) \div DurDen)

\* n is the number of whole frames in the configured duration
IsWholeFrames(n, c) == n * DurDen <= c.dur * c.fps /\ c.dur * c.fps < (n + 1) * DurDen

\* n is less than the number of whole frames in the configured duration
BelowWholeFrames(n, c) == (n + 1) * DurDen <= c.dur * c.fps

\* C1 (as claimed): once built, the timeline segments are contiguous from 0, do not
\* overlap, and the last one ends at total_frames, whatever the chapters sum to.
C1_TimelineCoversExactly ==
  TimelineBuilt =>
    /\ \A k \in 1..Len(timeline) :
         /\ timeline[k][1] <= timeline[k][2]
         /\ timeline[k][1] = IF k = 1 THEN 0 ELSE timeline[k - 1][2]
    /\ IF timeline = <<>> THEN IsWholeFrames(0, cfg)
       ELSE IsWholeFrames(timeline[Len(timeline)][2], cfg)

\* C2: render_frames never stops before it returns; the files written so far are
\* frame_000000, frame_000001, ... in increasing order, one per index, and at the
\* return there are exactly int(duration_s * fps) of them (duration_s * fps when
\* that is whole), six digits each, no name twice.
C2_FramesWritten ==
  /\ pc \in {"rf_enter", "rf_jump", "rf_timeline", "rf_frames"} => ENABLED NextRender
  /\ pc \in {"rf_frames", "rf_done"} =>
       /\ Len(written) = fi
       /\ Len(frames) = fi
       /\ fi * DurDen <= cfg.dur * cfg.fps
       /\ \A i \in 1..Len(written) :
            /\ Len(written[i]) = 6
            /\ DecValue(written[i]) = i - 1
       /\ \A i, j \in 1..Len(written) : written[i] = written[j] => i = j
  /\ pc = "rf_done" =>
       /\ IsWholeFrames(Len(written), cfg)
       /\ (cfg.dur * cfg.fps) % DurDen = 0 => Len(written) * DurDen = cfg.dur * cfg.fps

\* C2 witness: 2 s at fps 10 with no images gives 20 files, the last frame_000019
C2_Witness ==
  /\ pc = "rf_done"
  /\ cfg.fps = 10 /\ cfg.dur = 2 * DurDen /\ cfg.images = 0
  /\ Len(written) = 20
  /\ written[20] = <<0, 0, 0, 0, 1, 9>>

\* C7: a residual segment [sum of chapter frames, total_frames) is appended, last,
\* exactly when the chapters sum to fewer frames than total_frames; the segments
\* before it are the configured chapters in order.
C7_ResidualSegment ==
  TimelineBuilt =>
    LET m == Len(cfg.chapters)
        sum == ChapterFrames(cfg, m)
    IN /\ \A k \in 1..m :
            /\ k <= Len(timeline)
            /\ timeline[k] = <<ChapterFrames(cfg, k - 1), ChapterFrames(cfg, k),
                               cfg.chapters[k].name>>
       /\ IF BelowWholeFrames(sum, cfg)
            THEN /\ Len(timeline) = m + 1
                 /\ timeline[m + 1][1] = sum
                 /\ IsWholeFrames(timeline[m + 1][2], cfg)
            ELSE Len(timeline) = m

\* C7 witness: chapters totalling 3 s in a 5 s configuration at fps 1
C7_Witness ==
  /\ TimelineBuilt
  /\ cfg.fps = 1 /\ cfg.dur = 5 * DurDen
  /\ Len(cfg.chapters) = 1 /\ cfg.chapters[1].seconds = 3 * DurDen
  /\ Len(timeline) = 2
  /\ timeline[1][1] = 0 /\ timeline[1][2] = 3
  /\ timeline[2][1] = 3 /\ timeline[2][2] = 5

\* C3 (as claimed): a second run with the same seed, bundle and configuration
\* produces the frames and the audio of the first run.
C3_SameSeedSameOutput ==
  (run = 2 /\ pc = "ok") => <<frames, wav>> = first

\* C4: at every step of both schedule loops, and after them, the number of
\* scheduled events is at most max_events; none when max_events is 0.
C4_EventsCapped ==
  /\ Len(jump_events) <= cfg.max_events
  /\ Len(events) <= cfg.max_events

\* C4 witness: the audio loop stopped by the cap before the seconds ran out, after
\* the video loop was stopped the same way
C4_Witness ==
  /\ pc = "au_sting"
  /\ cfg.max_events > 0
  /\ Len(events) = cfg.max_events /\ asec < WholeSeconds(cfg)
  /\ Len(jump_events) = cfg.max_events /\ tsec < WholeSeconds(cfg)

RenderPcs == {"rf_enter", "rf_jump", "rf_timeline", "rf_frames"}

\* C5 (as claimed): no step of frame rendering changes a generator state that
\* audio synthesis reads afterwards (its own rng is built from the seed alone,
\* its noise comes from numpy's process-wide generator).
C5_RenderLeavesAudioGenerators ==
  [][(pc \in RenderPcs) => (np_state' = np_state)]_vars

\* C6 (as claimed): the written waveform has round(sample_rate * duration_s) samples.
C6_SampleCountIsRounded ==
  wav # None => wav[1].nframes = PyRound(SampleRate * cfg.dur, DurDen)

\* C6 (amended): the written waveform has int(sample_rate * duration_s) samples,
\* the product truncated, at 48000 Hz, one channel, two bytes a sample.
C6_SampleCountIsTruncated ==
  wav # None =>
    /\ wav[1].nframes * DurDen <= SampleRate * cfg.dur
    /\ SampleRate * cfg.dur < (wav[1].nframes + 1) * DurDen
    /\ wav[1].framerate = 48000
    /\ wav[1].nchannels = 1
    /\ wav[1].sampwidth = 2

\* C6 witness: 1 + 1/512 s gives 48093 samples where rounding gives 48094
C6_Witness ==
  /\ wav # None
  /\ cfg.dur = DurDen + 1
  /\ wav[1].nframes = 48093
  /\ PyRound(SampleRate * cfg.dur, DurDen) = 48094

\* C8: while main is inside the with block the temporary directory exists, and
\* whenever main has returned or raised it is gone.
C8_TempDirRemoved ==
  /\ pc \in InsideWith \cup {"au_done", "mux"} => td_exists
  /\ pc \in {"check", "ok", "raised"} => ~td_exists

\* C8 witness: main has raised from the mux step
C8_Witness ==
  /\ pc = "raised" /\ stage = "mux"
  /\ error[1] = "RuntimeError"
  /\ ~td_exists

\* C9 (as claimed): when the mux step fails no partial file is left at out_path.
C9_NoPartialOutput ==
  (pc = "raised" /\ stage = "mux") => out_file # "partial"

\* C10: success is reported only after encode and mux both returned 0 and the
\* output file exists; a failed encode raises the error with the captured output,
\* mux is not invoked and the run fails; a missing output file ends the run with
\* a nonzero exit status.
C10_SuccessOnlyAfterAllSteps ==
  /\ printed_ok =>
       /\ pc = "ok"
       /\ encode_rc # None /\ encode_rc[1] = 0
       /\ mux_rc # None /\ mux_rc[1] = 0
       /\ out_file # "absent"
       /\ exit_status = 0
  /\ (encode_rc # None /\ encode_rc[1] # 0) =>
       /\ pc = "raised"
       /\ error = <<"RuntimeError", encode_rc[2]>>
       /\ mux_rc = None
       /\ ~printed_ok
       /\ exit_status # 0
  /\ (stage = "check" /\ out_file = "absent") =>
       /\ pc = "raised"
       /\ error[1] = "SystemExit"
       /\ ~printed_ok
       /\ exit_status # 0
  /\ pc = "raised" => exit_status # 0 /\ ~printed_ok

\* C10 witness: a first run reported success, the second failed in the encode step
C10_Witness ==
  /\ run = 2 /\ first # None
  /\ pc = "raised" /\ stage = "encode"
  /\ encode_rc[1] = 1
  /\ error = <<"RuntimeError", encode_rc[2]>>

\* C12 (as claimed): a frame of a WARNING segment is the warning card, of a
\* TECHNICAL NOTES segment the technical notes card, of a "ROOM: <name>" or
\* CONTENT segment a live-footage frame; a noise plate is drawn only for a
\* segment with none of these names.
C12_ChapterKinds ==
  \A i \in 1..Len(shots) :
    /\ shots[i].name = "WARNING" => shots[i].kind = "warning card"
    /\ shots[i].name = "TECHNICAL NOTES" => shots[i].kind = "technical notes card"
    /\ (IsRoom(shots[i].name) \/ shots[i].name = "CONTENT") => shots[i].kind = "live footage"
    /\ shots[i].kind = "noise plate" =>
         ~(IsRoom(shots[i].name) \/ shots[i].name \in {"WARNING", "TECHNICAL NOTES", "CONTENT"})

\* C11 (as claimed): scrape_bundle always reaches its return, whatever the remote
\* calls do and whatever the scrape configuration is, and the bundle it returns
\* has at least one paragraph and at least one technical line.
C11_BundleNeverEmpty ==
  /\ pc \in {"sb_search", "sb_titles"} => ENABLED NextScrape
  /\ pc = "sb_done" =>
       /\ bundle # None
       /\ bundle[1].paragraphs # <<>>
       /\ bundle[1].tech_lines # <<>>

\* C13 (as claimed): the sustain time is never negative, every envelope value is
\* in [0, 1], and the value is 0 at and after dur, for every dur >= 0.
C13_EnvZeroFromDur ==
  /\ sustain_time >= 0
  /\ \A i \in 1..Len(env_out) :
       /\ env_out[i] >= 0 /\ env_out[i] <= 1000
       /\ SampleTime(i - 1) >= env_dur => env_out[i] = 0

\* C13 (amended): the sustain time is max(0, dur - (attack + decay + release)),
\* never negative; every envelope value is in [0, 1]; the attack rises from 0,
\* the decay falls from 1 towards the sustain level, the release never goes
\* below 0; the value is 0 at and after dur for sample times from attack + decay
\* on (so for every sample when dur >= attack + decay), while a sample time
\* below attack + decay gets its attack or decay value whatever dur is.
C13_EnvInRange ==
  pc \in {"env_loop", "env_done"} =>
    /\ sustain_time >= 0
    /\ sustain_time = IF env_dur > Attack + Decay + Release
                        THEN env_dur - (Attack + Decay + Release) ELSE 0
    /\ \A i \in 1..Len(env_out) :
         LET ti == SampleTime(i - 1)
             v == env_out[i]
         IN /\ v >= 0 /\ v <= 1000
            /\ ti = 0 => v = 0
            /\ ti < Attack => v * Attack = ti * 1000
            /\ (Attack <= ti /\ ti < Attack + Decay) =>
                 /\ v > SustainLevel
                 /\ v * Decay = 1000 * Decay - (1000 - SustainLevel) * (ti - Attack)
            /\ (ti >= env_dur /\ ti >= Attack + Decay) => v = 0
            /\ (ti >= Attack + Decay /\ ti < env_dur) => v > 0 /\ v <= SustainLevel

\* C13 witness: a note of 100 ms, shorter than attack + decay; its sustain time
\* is 0 and the sample at 150 ms, after its end, is in the decay segment
C13_Witness ==
  /\ pc = "env_done"
  /\ env_dur = 100
  /\ sustain_time = 0
  /\ SampleTime(30) = 150
  /\ env_out[31] = 720

\* the position of a step in the steps of a frame, 0 when it did not run
StepAt(steps, step) ==
  IF \E k \in 1..Len(steps) : steps[k] = step
    THEN CHOOSE k \in 1..Len(steps) : steps[k] = step
    ELSE 0

\* C14: with style.black_white set, in every frame to_grayscale runs right after
\* the base frame is built and before the OSD overlay, the glitch message and
\* the jump-scare step, and the frame handed to apply_vhs has equal colour
\* channels, for every chapter kind, inside and outside jump-scare windows.
C14_GrayscaleBeforeOverlays ==
  cfg.black_white =>
    \A i \in 1..Len(shots) :
      /\ StepAt(shots[i].steps, "base") = 1
      /\ StepAt(shots[i].steps, "to_grayscale") = 2
      /\ StepAt(shots[i].steps, "overlay_vhs_osd") = 3
      /\ StepAt(shots[i].steps, "glitch_errors") = 4
      /\ shots[i].jumped <=> StepAt(shots[i].steps, "maybe_jumpscare_frame") = 5
      /\ shots[i].steps[Len(shots[i].steps)] = "apply_vhs"
      /\ shots[i].tint = 0

\* C14 witness: black and white with coloured source images; a card, a noise
\* plate and a live-footage frame inside a jump-scare window were rendered
C14_Witness ==
  /\ cfg.black_white /\ cfg.images > 0 /\ cfg.img_tint > 0
  /\ \E i \in 1..Len(shots) : shots[i].kind = "warning card"
  /\ \E i \in 1..Len(shots) : shots[i].kind = "noise plate"
  /\ \E i \in 1..Len(shots) :
       /\ shots[i].kind = "live footage" /\ shots[i].jumped /\ shots[i].tint = 0
  /\ \E i \in 1..Len(shots) : shots[i].kind = "live footage" /\ ~shots[i].jumped

\* C15: no previous buffer is passed for frame 0, so its smear stage is skipped;
\* for every later frame the buffer passed to apply_vhs is the buffer apply_vhs
\* returned for the frame before, which is the degraded frame that was written,
\* whatever the smear strength and the kind of the frame before; all frames and
\* buffers have the configured width and height and three channels.
C15_PreviousBufferThreaded ==
  pc \in {"rf_frames", "rf_done"} =>
    /\ Len(shots) = Len(frames)
    /\ prev_arr = IF frames = <<>> THEN None ELSE <<frames[Len(frames)]>>
    /\ \A i \in 1..Len(shots) :
         /\ shots[i].prev_in = IF i = 1 THEN None ELSE <<frames[i - 1]>>
         /\ shots[i].smeared <=> (i > 1 /\ cfg.pframe_smear > 0)
         /\ shots[i].shape = <<cfg.w, cfg.h, 3>>

\* C15 witness: smear strength 0; a card, then a noise plate, then a room frame,
\* each handed the written frame before it
C15_Witness ==
  /\ pc = "rf_done"
  /\ cfg.pframe_smear = 0
  /\ Len(shots) >= 4
  /\ shots[2].kind = "technical notes card"
  /\ shots[3].kind = "noise plate" /\ shots[3].prev_in = <<frames[2]>>
  /\ shots[4].kind = "live footage" /\ shots[4].prev_in = <<frames[3]>>
  /\ frames[2] # frames[3]

\* C16: a frame gets the jump-scare step exactly when some trigger f0 has
\* f0 <= fi < f0 + flash_frames + hold_frames; the trigger drawn for second tsec
\* is in [tsec * fps, tsec * fps + fps - 1]; the triggers are in different whole
\* seconds and below total_frames; no frame at or past total_frames is rendered.
C16_JumpWindows ==
  /\ [](/\ \A k \in 1..Len(jump_events) :
            /\ BelowWholeFrames(jump_events[k], cfg)
            /\ \A j \in 1..(k - 1) :
                 jump_events[j] \div cfg.fps < jump_events[k] \div cfg.fps
        /\ pc \in {"rf_frames", "rf_done"} =>
             /\ Len(shots) = fi
             /\ fi * DurDen <= cfg.dur * cfg.fps
             /\ \A i \in 1..Len(shots) :
                  shots[i].jumped <=>
                    \E k \in 1..Len(jump_events) :
                      /\ jump_events[k] <= i - 1
                      /\ i - 1 < jump_events[k] + cfg.flash_frames + cfg.hold_frames)
  /\ [][Len(jump_events') = Len(jump_events) + 1 =>
          /\ jump_events'[Len(jump_events')] >= tsec * cfg.fps
          /\ jump_events'[Len(jump_events')] <= tsec * cfg.fps + cfg.fps - 1]_vars

\* C16 witness: two triggers at fps 3, the second not on a second boundary and
\* with a window that runs past total_frames; frames inside and outside windows
C16_Witness ==
  /\ pc = "rf_done"
  /\ cfg.fps = 3
  /\ Len(jump_events) = 2
  /\ jump_events[2] % cfg.fps # 0
  /\ BelowWholeFrames(jump_events[2], cfg)
  /\ ~BelowWholeFrames(jump_events[2] + cfg.flash_frames + cfg.hold_frames - 1, cfg)
  /\ shots[Len(shots)].jumped
  /\ \E i \in 1..Len(shots) : ~shots[i].jumped

\* C17: for every rendered frame of a room segment [a, b) the progress t is in
\* [0, 1], is 0 on the first frame of the segment, does not decrease from one
\* frame of the segment to the next, and is 1 on the last frame when the segment
\* has two frames or more; a segment of one frame gives t = 0.
C17_ProgressInUnitInterval ==
  pc \in {"rf_frames", "rf_done"} =>
    \A i \in 1..Len(shots) :
      IsRoom(shots[i].name) =>
        LET a == SegmentOf(timeline, i - 1)[1]
            b == SegmentOf(timeline, i - 1)[2]
            n == shots[i].t[1]
            d == shots[i].t[2]
        IN /\ d >= 1 /\ 0 <= n /\ n <= d
           /\ i - 1 = a => n = 0
           /\ (i - 1 > a) =>
                shots[i].t[1] * shots[i - 1].t[2] >= shots[i - 1].t[1] * shots[i].t[2]
           /\ (i - 1 = b - 1 /\ b - a >= 2) => n = d
           /\ b - a = 1 => shots[i].t = <<0, 1>>

\* C17 witness: a room segment of three frames was rendered with t = 0, 1/2, 1
\* after a room segment of one frame
C17_Witness ==
  /\ pc = "rf_done"
  /\ Len(shots) >= 4
  /\ timeline[1] = <<0, 1, "ROOM: A">>
  /\ timeline[2] = <<1, 4, "ROOM: B">>
  /\ shots[1].t = <<0, 1>>
  /\ shots[2].t = <<0, 2>> /\ shots[3].t = <<1, 2>> /\ shots[4].t = <<2, 2>>

\* the shots of room chapters
RoomShots == {i \in 1..Len(shots) : IsRoom(shots[i].name)}

\* how many distinct rooms have appeared up to the first frame of the room of shot i
RoomRank(i) ==
  LET key == RoomKey(shots[i].name)
      firstAt == CHOOSE j \in RoomShots :
                   /\ RoomKey(shots[j].name) = key
                   /\ \A h \in RoomShots : RoomKey(shots[h].name) = key => j <= h
  IN Cardinality({RoomKey(shots[j].name) : j \in {h \in RoomShots : h <= firstAt}})

\* C18: every frame of a room shows the pair its room was bound to on its first
\* frame; the rooms take the pairs of the theme list in order of first
\* appearance; no theme pair goes to two rooms; a room that appears after the
\* list is used up gets (<name>, "field note / partial lock"), and the frame
\* loop goes on.
C18_RoomBinding ==
  /\ pc = "rf_frames" => ENABLED NextRender
  /\ room_iter <= Len(cfg.rooms)
  /\ \A i \in RoomShots :
       /\ shots[i].room =
            IF RoomRank(i) <= Len(cfg.rooms)
              THEN cfg.rooms[RoomRank(i)]
              ELSE <<RoomKey(shots[i].name), "field note / partial lock">>
       /\ \A j \in RoomShots :
            /\ RoomKey(shots[i].name) = RoomKey(shots[j].name) =>
                 shots[i].room = shots[j].room
            /\ (shots[i].room = shots[j].room
                  /\ \E k \in 1..Len(cfg.rooms) : cfg.rooms[k] = shots[i].room) =>
                 RoomKey(shots[i].name) = RoomKey(shots[j].name)

\* C18 witness: a theme of one room; room A, then room B, then room A again:
\* A has the theme pair in both segments, B and the residual room the fallback
C18_Witness ==
  /\ pc = "rf_done"
  /\ Len(cfg.rooms) = 1
  /\ Len(timeline) = 4
  /\ timeline[1][3] = "ROOM: A" /\ timeline[2][3] = "ROOM: B" /\ timeline[3][3] = "ROOM: A"
  /\ shots[1].room = cfg.rooms[1]
  /\ shots[2].room = <<"B", "field note / partial lock">>
  /\ shots[3].room = cfg.rooms[1]
  /\ shots[Len(shots)].room = <<"ATTIC", "field note / partial lock">>

====
